---------------------------- MODULE Spec2Model ----------------------------
(***************************************************************************)
(* Model of src/decoder.hpp of kaldi-serve: the Decoder session object,    *)
(* the DecoderFactory, the DecoderQueue pool (mutex + condition variable)  *)
(* and the extraction of ranked alternatives from a lattice.               *)
(*                                                                         *)
(* Kaldi / OpenFst objects are opaque in the source.  They are modelled by *)
(* the part of their state that the calls made in decoder.hpp change or    *)
(* read: samples accepted, frames decoded, the InputFinished and           *)
(* FinalizeDecoding flags, and the number of tracebacks absorbed by the    *)
(* silence-weighting helper.                                               *)
(***************************************************************************)
EXTENDS Integers, Sequences, FiniteSets, TLC

(***************************************************************************)
(* Bounds of the model.                                                    *)
(***************************************************************************)
\* largest ModelSpec::n_decoders tried
MaxDecoders == 2
\* number of request-handler threads
NumThreads == 3
\* number of threads that also use the decoder they acquire
NumCallers == 2
\* entries of a caller's result vector
MaxResults == 2
\* total number of acquire() calls the threads make
MaxAcquires == 3
\* samples one feature pipeline accepts (1 sample stands for 1 frame)
MaxSamples == 1
\* tracebacks one silence-weighting helper absorbs over its life
MaxTracebacks == 1
\* paths of a lattice
MaxPaths == 2
\* largest n_best asked for
MaxNBest == 2
\* largest n_best asked for by a caller of the pool and in a session that
\* is followed through all its audio entry points
MaxPoolNBest == 1
\* entries of a minimum-Bayes-risk one-best output
MaxWords == 1
\* largest data_bytes of one raw chunk (two bytes make a sample)
MaxBytes == 2
\* samples of the buffers given to the non-streaming entry points
MaxAudio == 3
\* largest ordinary word count given to calculate_confidence
MaxWordCount == 5

Threads == 1..NumThreads
Callers == 1..NumCallers
NoThread == 0
NoDecoder == 0
Uuids == {"u1", "u2"}

VARIABLES
  model_spec,   \* ModelSpec given to the DecoderQueue / DecoderFactory
  files,        \* which optional files the model directory holds
  pool_pc,      \* "unbuilt", "factory" (factory built), "ready", "direct",
                \* "destroyed" (the DecoderQueue's destructor has run)
  reads,        \* how often each model file has been read
  decoders,     \* sequence of the Decoder objects produced so far
  queue_,       \* DecoderQueue::queue_
  mutex_,       \* DecoderQueue::mutex_ : owner thread or NoThread
  cond_,        \* DecoderQueue::cond_  : threads blocked in cond_.wait
  pc,           \* position of each thread
  held,         \* the Decoder* each thread has (item / decoder argument)
  n_acquire,    \* acquire() calls started
  n_returned,   \* acquire() calls returned
  n_pushed,     \* release() calls that have pushed
  life,         \* per decoder: "constructed", "started" (start_decoding was
                \* the last call), "fed" (chunks were decoded since),
                \* "finalized" (get_decoded_results closed the input), "freed",
                \* "deleted" (the Decoder object was deleted)
  used,         \* per decoder: 0, 1 (an utterance was completed on it) or
                \* 2 (it was acquired again after that)
  outcome,      \* how the last call on a Decoder ended
  result_vec,   \* caller's utterance_results_t of the last call
  call,         \* the arguments of the last get_decoded_results call
  last,         \* the last (or running) call of a Decoder method: which
                \* one, its arguments, the per-utterance members it found
                \* allocated (had), and the engine calls and deletes it
                \* made, in order
  conf,         \* arguments and result of a calculate_confidence call
  extract,      \* arguments and result of a result-extraction call
  crashed       \* process ended by undefined behaviour or abort

vars == << model_spec, files, pool_pc, reads, decoders, queue_, mutex_, cond_,
           pc, held, n_acquire, n_returned, n_pushed, life, used,
           outcome, result_vec, call, last, conf, extract, crashed >>

pool_vars == << queue_, mutex_, cond_, pc, held, n_acquire, n_returned, n_pushed >>
build_vars == << model_spec, files, pool_pc, reads, conf, extract >>
call_vars == << outcome, result_vec, call, last >>


(***************************************************************************)
(* Floating point values.  A float or double is a finite number, an        *)
(* infinity or a NaN.  Finite scores are whole numbers; the finite value   *)
(* of a confidence is kept in millionths (fixed point).                    *)
(***************************************************************************)
Fin(x) == [k |-> "fin", v |-> x]
PInf == [k |-> "inf", v |-> 1]
NInf == [k |-> "inf", v |-> -1]
NaN == [k |-> "nan", v |-> 0]

Sign(x) == IF x > 0 THEN 1 ELSE IF x < 0 THEN -1 ELSE 0
Inf(s) == [k |-> "inf", v |-> s]

\* a < b of IEEE 754: false whenever an operand is a NaN
FLess(a, b) ==
  IF a.k = "nan" \/ b.k = "nan" THEN FALSE
  ELSE IF a.k = "inf" THEN a.v = -1 /\ ~(b.k = "inf" /\ b.v = -1)
  ELSE IF b.k = "inf" THEN b.v = 1
  ELSE a.v < b.v

\* a + b
FAdd(a, b) ==
  IF a.k = "nan" \/ b.k = "nan" THEN NaN
  ELSE IF a.k = "inf" /\ b.k = "inf" THEN (IF a.v = b.v THEN a ELSE NaN)
  ELSE IF a.k = "inf" THEN a
  ELSE IF b.k = "inf" THEN b
  ELSE Fin(a.v + b.v)

\* (c / d) * a for whole numbers c and d > 0 (a constant factor c/d)
FScale(c, d, a) ==
  IF a.k = "nan" THEN NaN
  ELSE IF a.k = "inf" THEN (IF c = 0 THEN NaN ELSE Inf(Sign(c) * a.v))
  ELSE Fin((c * a.v) \div d)

\* a / n for a count n >= 0 converted to double (n = 0 divides by +0.0)
FDivCount(a, n) ==
  IF a.k = "nan" THEN NaN
  ELSE IF a.k = "inf" THEN a
  ELSE IF n = 0 THEN (IF a.v = 0 THEN NaN ELSE Inf(Sign(a.v)))
  ELSE Fin(a.v \div n)

\* std::min(a, b) and std::max(a, b) as <algorithm> defines them
StdMin(a, b) == IF FLess(b, a) THEN b ELSE a
StdMax(a, b) == IF FLess(a, b) THEN b ELSE a

\* std::size_t: its largest value (the largest 32-bit signed integer stands
\* for it) and the wrapping successor
SIZE_MAX == 2147483647
SizeSucc(n) == IF n = SIZE_MAX THEN 0 ELSE n + 1

\* 1.0, 0.0 and 0.956 in millionths
One == Fin(1000000)
Zero == Fin(0)
Offset == Fin(956000)

\* the clamp without its lower bound (a plausible slip)
Clamp_NoLower(x) == StdMin(One, x)
\* std::max(0.0, std::min(1.0, x))
Clamp(x) == StdMax(Zero, StdMin(One, x))

\* -0.0001466488 * (2.388449 * lm_score + am_score) / (n_words + 1) + 0.956
\* with the scores in units and the result in millionths: the sum is kept
\* in thousandths (2388 lm + 1000 am), scaled by -1466/10 per thousand.
Affine(lm_score, am_score, n_words) ==
  LET sum == FAdd(FScale(2388, 1, lm_score), FScale(1000, 1, am_score))
      scaled == FScale(-1466, 10, FScale(1, 1000, sum))
  IN  FAdd(FDivCount(scaled, SizeSucc(n_words)), Offset)

calculate_confidence(lm_score, am_score, n_words) ==
  Clamp(Affine(lm_score, am_score, n_words))

(***************************************************************************)
(* class Decoder.  A Decoder is a record of its members; a pointer member  *)
(* is Null or the object it points to.                                     *)
(***************************************************************************)
Null == [null |-> TRUE]

\* new kaldi::OnlineNnet2FeaturePipeline(*feature_info_) followed by
\* SetAdaptationState(adaptation)
NewFeaturePipeline(adaptation) ==
  [null |-> FALSE, samples |-> 0, input_finished |-> FALSE,
   adaptation |-> adaptation]

\* feature_pipeline_->IvectorFeature() != NULL: the constructor sets
\* feature_info_->use_ivectors = true (line 258)
IvectorFeature(p) == TRUE

\* the adaptation state a feature pipeline has reached
\* (OnlineNnet2FeaturePipeline::GetAdaptationState): the one it was given,
\* advanced by the audio it has accepted.  An adaptation state is kept as
\* the amount of audio it has adapted to.
GetAdaptationState(p) == p.adaptation + p.samples

\* new kaldi::SingleUtteranceNnet3Decoder(...)
NewSearch == [null |-> FALSE, frames |-> 0, finalized |-> FALSE]

\* the adaptation state a Decoder is constructed with (line 280): adapted
\* to no audio
InitialAdaptation == 0

\* Decoder::Decoder: the members after construction
DecoderCtor(spec, fs) ==
  [ options |-> [enable_word_level |-> fs.word_boundary],
    decoder_ |-> Null,
    feature_pipeline_ |-> Null,
    adaptation_state_ |-> InitialAdaptation,
    silence_weighting_ |-> [active |-> spec.silence_active, tracebacks |-> 0],
    uuid_ |-> "" ]

\* free_decoder that forgets to clear the token
free_decoder_KeepUuid(d) ==
  [d EXCEPT !.decoder_ = Null, !.feature_pipeline_ = Null]
\* Decoder::free_decoder
free_decoder(d) ==
  [d EXCEPT !.decoder_ = Null, !.feature_pipeline_ = Null, !.uuid_ = ""]

\* the per-utterance members of d that point to an object
Allocated(d) == { m \in {"decoder_", "feature_pipeline_"} : ~d[m].null }

\* free_decoder that deletes the search and forgets the pipeline (a slip)
FreeCalls_SearchOnly(d) ==
  IF ~d.decoder_.null THEN << "delete decoder_" >> ELSE << >>
\* the deletes of free_decoder, in the order of its statements (lines 309-316)
FreeCalls(d) ==
  (IF ~d.decoder_.null THEN << "delete decoder_" >> ELSE << >>)
    \o (IF ~d.feature_pipeline_.null THEN << "delete feature_pipeline_" >> ELSE << >>)

\* Decoder::start_decoding
start_decoding(d, uuid) ==
  LET f == free_decoder(d)
  IN  [f EXCEPT !.feature_pipeline_ = NewFeaturePipeline(f.adaptation_state_),
                !.decoder_ = NewSearch,
                !.uuid_ = uuid]

\* The result of a Decoder method: the members after the call, how the
\* call ended: "ok", "exception" (thrown to the caller), "abort" (a failed
\* KALDI_ASSERT) or "segv" (a member called through a NULL pointer), and
\* the engine calls it made, in order.
Ret(d, how, calls) == [d |-> d, outcome |-> how, calls |-> calls]

\* feature_pipeline_->AcceptWaveform(samp_freq, wave_part): an empty wave
\* part is ignored, audio after InputFinished() is refused with an error
AcceptWaveform(p, n) ==
  IF n = 0 THEN [p |-> p, ok |-> TRUE]
  ELSE IF p.input_finished THEN [p |-> p, ok |-> FALSE]
  ELSE [p |-> [p EXCEPT !.samples = @ + n], ok |-> TRUE]

\* silence_weighting_->ComputeCurrentTraceback / GetDeltaWeights: the helper
\* absorbs one more traceback
ComputeCurrentTraceback(sw) == [sw EXCEPT !.tracebacks = @ + 1]

\* line 472: silence_weighting_->Active() && IvectorFeature() != NULL
Weighting(d) == d.silence_weighting_.active /\ IvectorFeature(d.feature_pipeline_)

\* the search advanced before the weights are applied (a slip)
StepCalls_AdvanceFirst(weighting) ==
  << "AcceptWaveform", "AdvanceDecoding" >>
    \o (IF weighting
        THEN << "ComputeCurrentTraceback", "GetDeltaWeights", "UpdateFrameWeights" >>
        ELSE << >>)
\* the engine calls of one complete _decode_wave, in the order of its
\* statements (lines 462, 473, 474, 485, 496)
StepCalls(weighting) ==
  << "AcceptWaveform" >>
    \o (IF weighting
        THEN << "ComputeCurrentTraceback", "GetDeltaWeights", "UpdateFrameWeights" >>
        ELSE << >>)
    \o << "AdvanceDecoding" >>

\* Decoder::_decode_wave on a wave part of n samples
decode_wave(d, n) ==
  IF d.feature_pipeline_.null THEN Ret(d, "segv", << >>)
  ELSE
    LET acc == AcceptWaveform(d.feature_pipeline_, n)
        d1 == [d EXCEPT !.feature_pipeline_ = acc.p]
        d2 == IF Weighting(d1)
              THEN [d1 EXCEPT !.silence_weighting_ = ComputeCurrentTraceback(@)]
              ELSE d1
    IN  IF ~acc.ok THEN Ret(d, "exception", << "AcceptWaveform" >>)
        ELSE IF d2.decoder_.finalized THEN Ret(d2, "abort", StepCalls(Weighting(d1)))
        ELSE Ret([d2 EXCEPT !.decoder_.frames = d2.feature_pipeline_.samples], "ok",
                 StepCalls(Weighting(d1)))

\* read_raw_wav_stream: how the read ends and the columns of wav_data.  The
\* buffer has data_bytes bytes whatever the stream delivers (line 83); a
\* matrix of one row and no columns (one byte of data) is accepted by
\* Resize or fails its assertion, as empty_matrix_ok says.
read_raw_wav_stream(bad, data_bytes, empty_matrix_ok) ==
  IF bad THEN [how |-> "exception", cols |-> 0]
  ELSE IF data_bytes = 0 THEN [how |-> "exception", cols |-> 0]
  ELSE IF data_bytes \div 2 = 0 /\ ~empty_matrix_ok THEN [how |-> "abort", cols |-> 0]
  ELSE [how |-> "ok", cols |-> data_bytes \div 2]

\* Decoder::decode_stream_raw_wav_chunk
decode_stream_raw_wav_chunk(d, bad, data_bytes, empty_matrix_ok) ==
  LET r == read_raw_wav_stream(bad, data_bytes, empty_matrix_ok)
  IN  IF r.how # "ok" THEN Ret(d, r.how, << >>)
      ELSE decode_wave(d, r.cols)

\* Decoder::decode_stream_wav_chunk; wave is what kaldi::WaveData::Read
\* makes of the stream: an error, or the samples of channel zero
decode_stream_wav_chunk(d, wave) ==
  IF ~wave.ok THEN Ret(d, "exception", << >>)
  ELSE decode_wave(d, wave.n)

(***************************************************************************)
(* Result extraction.  A lattice is the sequence of its paths, in the      *)
(* enumeration order of the search; a path carries its word ids and its    *)
(* two-component weight (Value1 = lm, Value2 = am).                        *)
(***************************************************************************)
\* word_syms_->Find(wid)
Find(wid) == IF wid = 1 THEN "hello" ELSE IF wid = 2 THEN "world" ELSE ""

Cost(path) == path.lm + path.am

\* position of the first path of least cost
ArgMin(paths) ==
  CHOOSE i \in 1..Len(paths) :
    /\ \A j \in 1..Len(paths) : Cost(paths[i]) <= Cost(paths[j])
    /\ \A j \in 1..(i - 1) : Cost(paths[j]) > Cost(paths[i])

Remove(seq, i) == SubSeq(seq, 1, i - 1) \o SubSeq(seq, i + 1, Len(seq))

\* fst::ShortestPath(*lat, &nbest_lat, n) and fst::ConvertNbestToVector: the
\* n cheapest paths, cheapest first, ties in the lattice's own order
RECURSIVE ShortestPath(_, _)
ShortestPath(paths, n) ==
  IF n = 0 \/ paths = << >> THEN << >>
  ELSE LET i == ArgMin(paths)
       IN  << paths[i] >> \o ShortestPath(Remove(paths, i), n - 1)

\* string_join(word_strings, " ", sentence): the words in order
Transcript(word_ids) == [i \in 1..Len(word_ids) |-> Find(word_ids[i])]

\* the Alternative built from one n-best entry (lines 528-545)
MakeAlternative(l) ==
  [ transcript |-> Transcript(l.word_ids),
    lm_score |-> l.lm,
    am_score |-> l.am,
    confidence |-> calculate_confidence(Fin(l.lm), Fin(l.am), Len(l.word_ids)),
    words |-> << >> ]

\* results.push_back(alt) for every n-best entry, newest first (a slip)
PushAlternatives_Reversed(results, nbest_lats) ==
  results \o [i \in 1..Len(nbest_lats) |->
                MakeAlternative(nbest_lats[Len(nbest_lats) + 1 - i])]
\* the loop of lines 526-548: results.push_back(alt) for every n-best entry
PushAlternatives(results, nbest_lats) ==
  results \o [i \in 1..Len(nbest_lats) |-> MakeAlternative(nbest_lats[i])]

\* the Word built from entry i of the minimum-Bayes-risk one-best output;
\* times are in units of frame_shift (0.01 s)
MakeWord(d_spec, w) ==
  [ word |-> Find(w.id),
    start_time |-> w.t0 * d_spec.frame_subsampling_factor,
    end_time |-> w.t1 * d_spec.frame_subsampling_factor,
    confidence |-> w.conf ]

\* the aligned lattice is used when WordAlignLattice says so (a slip)
AlignmentOk_TrustFlag(align) == align.ok
\* lines 562-579: whether the aligned lattice is used, given what
\* WordAlignLattice reported and whether the aligned lattice has a start state
AlignmentOk(align) ==
  IF ~align.ok
  THEN (IF align.start_valid THEN TRUE ELSE FALSE)
  ELSE (IF ~align.start_valid THEN FALSE ELSE TRUE)

\* line 550: options.enable_word_level && word_level
WantWords(d, word_level) == d.options.enable_word_level /\ word_level

\* words attached to every alternative (a slip)
AttachWords_All(results, words) ==
  IF results # << >> /\ words # << >>
  THEN [i \in 1..Len(results) |-> [results[i] EXCEPT !.words = words]]
  ELSE results
\* lines 613-615: results[0].words = words
AttachWords(results, words) ==
  IF results # << >> /\ words # << >>
  THEN [results EXCEPT ![1].words = words]
  ELSE results

\* Decoder::_find_alternatives; align is what WordAlignLattice and
\* MinimumBayesRisk yield for this lattice
find_alternatives(d, spec, clat, n_best, results, word_level, align) ==
  LET nbest_lats == ShortestPath(clat, n_best)
      pushed == PushAlternatives(results, nbest_lats)
      words == IF AlignmentOk(align)
               THEN [i \in 1..Len(align.one_best) |-> MakeWord(spec, align.one_best[i])]
               ELSE << >>
  IN  IF nbest_lats = << >> THEN results
      ELSE IF ~WantWords(d, word_level) THEN pushed
      ELSE AttachWords(pushed, words)

\* the aligner run before the n-best list is looked at (a slip)
ExtractCalls_AlignFirst(d, clat, n_best, word_level, align) ==
  << "ShortestPath" >>
    \o (IF ~WantWords(d, word_level) THEN << >>
        ELSE << "WordAlignLattice" >>
               \o (IF AlignmentOk(align) THEN << "MinimumBayesRisk" >> ELSE << >>))
\* the engine calls of _find_alternatives, in the order of its statements
\* (lines 518, 562, 590)
ExtractCalls(d, clat, n_best, word_level, align) ==
  << "ShortestPath" >>
    \o (IF ShortestPath(clat, n_best) = << >> THEN << >>
        ELSE IF ~WantWords(d, word_level) THEN << >>
        ELSE << "WordAlignLattice" >>
               \o (IF AlignmentOk(align) THEN << "MinimumBayesRisk" >> ELSE << >>))

Ret2(d, res, how, calls) ==
  [d |-> d, results |-> res, outcome |-> how, calls |-> calls]

\* get_decoded_results that never signals the end of input (a slip)
Finish_NoInputFinished(d, bidi_streaming) ==
  IF bidi_streaming THEN d
  ELSE [d EXCEPT !.decoder_.finalized = TRUE]
\* get_decoded_results that finalizes whatever bidi_streaming says (a slip)
Finish_Always(d, bidi_streaming) ==
  [d EXCEPT !.feature_pipeline_.input_finished = TRUE,
            !.decoder_.finalized = TRUE]
\* lines 436-439: InputFinished() and FinalizeDecoding() unless bidi_streaming
Finish(d, bidi_streaming) ==
  IF bidi_streaming THEN d
  ELSE [d EXCEPT !.feature_pipeline_.input_finished = TRUE,
                 !.decoder_.finalized = TRUE]

\* the search finalized before the end of input is signalled (a slip)
FinishCalls_Swapped(bidi_streaming) ==
  IF bidi_streaming THEN << >> ELSE << "FinalizeDecoding", "InputFinished" >>
\* the engine calls of lines 436-439
FinishCalls(bidi_streaming) ==
  IF bidi_streaming THEN << >> ELSE << "InputFinished", "FinalizeDecoding" >>

\* Decoder::get_decoded_results; clat is what decoder_->GetLattice yields
get_decoded_results(d, spec, n_best, results, word_level, bidi_streaming, clat, align) ==
  IF d.decoder_.null THEN Ret2(d, results, "segv", << >>)
  ELSE
    LET d1 == Finish(d, bidi_streaming)
        calls == FinishCalls(bidi_streaming) \o << "NumFramesDecoded" >>
    IN  IF d1.decoder_.frames = 0 THEN Ret2(d1, results, "ok", calls)
        ELSE Ret2(d1, find_alternatives(d1, spec, clat, n_best, results, word_level, align),
                  "ok",
                  calls \o << "GetLattice" >>
                        \o ExtractCalls(d1, clat, n_best, word_level, align))

(***************************************************************************)
(* Construction: DecoderQueue::DecoderQueue builds one DecoderFactory and  *)
(* n_decoders Decoders.                                                    *)
(***************************************************************************)
NoCall == [res_in |-> << >>, n_best |-> 0, word_level |-> FALSE]
NoLast == [op |-> "none", calls |-> << >>]
NoExtract == [done |-> FALSE]
NoConf == [lm_score |-> Zero, am_score |-> Zero, n_words |-> 0,
           done |-> FALSE, result |-> Zero]

ModelSpecs ==
  [n_decoders : 1..MaxDecoders, silence_active : BOOLEAN,
   frame_subsampling_factor : {3}]
\* the files every model directory must hold
RequiredFiles ==
  { "HCLG.fst", "final.mdl", "words.txt", "conf/mfcc.conf",
    "conf/ivector_extractor.conf" }

\* A model directory: whether word_boundary.int exists, and which file, if
\* any, cannot be read (a required file that is missing or malformed, or a
\* word_boundary.int that exists and is malformed).
ModelDirs ==
  { fs \in [word_boundary : BOOLEAN,
            broken : {"none", "word_boundary.int"} \cup RequiredFiles] :
      fs.broken = "word_boundary.int" => fs.word_boundary }

\* the model directories that hold every required file, well formed
GoodDirs == { fs \in ModelDirs : fs.broken = "none" }

Init ==
  /\ model_spec \in ModelSpecs
  /\ files \in ModelDirs
  /\ pool_pc = "unbuilt"
  /\ reads = [hclg |-> 0, mdl |-> 0, words |-> 0, word_boundary |-> 0]
  /\ decoders = << >>
  /\ queue_ = << >>
  /\ mutex_ = NoThread
  /\ cond_ = {}
  /\ pc = [t \in Threads |-> "idle"]
  /\ held = [t \in Threads |-> NoDecoder]
  /\ n_acquire = 0
  /\ n_returned = 0
  /\ n_pushed = 0
  /\ life = << >>
  /\ used = << >>
  /\ outcome = "none"
  /\ result_vec = << >>
  /\ call = NoCall
  /\ last = NoLast
  /\ conf = NoConf
  /\ extract = NoExtract
  /\ crashed = FALSE

\* the files Decoder::Decoder reads (lines 233-236, 243, 247-249), in this
\* order and up to the first that cannot be read
DecoderReads(r, fs) ==
  LET mdl == fs.broken # "final.mdl"
      words == mdl /\ fs.broken # "words.txt"
      wb == words /\ fs.word_boundary /\ fs.broken # "word_boundary.int"
  IN  [r EXCEPT !.mdl = @ + (IF mdl THEN 1 ELSE 0),
                !.words = @ + (IF words THEN 1 ELSE 0),
                !.word_boundary = @ + (IF wb THEN 1 ELSE 0)]

\* Decoder::Decoder that takes a symbol table it could not read (a slip)
CtorFails_SymbolsUnchecked(fs) ==
  fs.broken \in {"final.mdl", "word_boundary.int", "conf/mfcc.conf",
                 "conf/ivector_extractor.conf"}
\* Decoder::Decoder: a read that fails raises an error inside the try block
\* (lines 213-284); the handler raises it again (line 287) and the noexcept
\* constructor ends the process
CtorFails(fs) ==
  fs.broken \in {"final.mdl", "words.txt", "word_boundary.int", "conf/mfcc.conf",
                 "conf/ivector_extractor.conf"}

\* DecoderFactory::DecoderFactory: reads HCLG.fst; a graph that cannot be
\* read raises an error that leaves the constructors
NewFactory ==
  /\ pool_pc = "unbuilt"
  /\ pool_pc' = IF files.broken = "HCLG.fst" THEN "failed" ELSE "factory"
  /\ reads' = [reads EXCEPT !.hclg = @ + (IF files.broken = "HCLG.fst" THEN 0 ELSE 1)]
  /\ UNCHANGED << model_spec, files, conf, extract, decoders, pool_vars, life, used,
                  call_vars, crashed >>

\* one round of the constructor's loop: queue_.push(decoder_factory_->produce())
Produce ==
  /\ pool_pc = "factory"
  /\ Len(decoders) < model_spec.n_decoders
  /\ reads' = DecoderReads(reads, files)
  /\ IF CtorFails(files)
     THEN /\ pool_pc' = "terminated"
          /\ crashed' = TRUE
          /\ UNCHANGED << decoders, queue_, life, used >>
     ELSE /\ decoders' = Append(decoders, DecoderCtor(model_spec, files))
          /\ queue_' = Append(queue_, Len(decoders) + 1)
          /\ life' = Append(life, "constructed")
          /\ used' = Append(used, 0)
          /\ pool_pc' = IF Len(decoders) + 1 = model_spec.n_decoders
                        THEN "ready" ELSE "factory"
          /\ UNCHANGED crashed
  /\ UNCHANGED << model_spec, files, conf, extract, mutex_, cond_, pc, held, n_acquire,
                  n_returned, n_pushed, call_vars >>

(***************************************************************************)
(* DecoderQueue::acquire / pop_ and release / push_, one step per          *)
(* statement that another thread can observe.                              *)
(***************************************************************************)
Running == pool_pc = "ready" /\ ~crashed

UnchangedByPool == << build_vars, decoders, life, call_vars, crashed >>

\* a thread calls acquire()
AcquireStart(t) ==
  /\ Running
  /\ pc[t] = "idle"
  /\ n_acquire < MaxAcquires
  /\ n_acquire' = n_acquire + 1
  /\ pc' = [pc EXCEPT ![t] = "pop_lock"]
  /\ UNCHANGED << queue_, mutex_, cond_, held, n_returned, n_pushed, used,
                  UnchangedByPool >>

\* pop_ entered without taking the mutex (a slip)
PopLock_NoMutex(t) ==
  /\ Running
  /\ pc[t] = "pop_lock"
  /\ pc' = [pc EXCEPT ![t] = "pop_check"]
  /\ UNCHANGED << queue_, mutex_, cond_, held, n_acquire, n_returned, n_pushed,
                  used, UnchangedByPool >>
\* line 731: std::unique_lock<std::mutex> mlock(mutex_)
PopLock(t) ==
  /\ Running
  /\ pc[t] = "pop_lock"
  /\ mutex_ = NoThread
  /\ mutex_' = t
  /\ pc' = [pc EXCEPT ![t] = "pop_check"]
  /\ UNCHANGED << queue_, cond_, held, n_acquire, n_returned, n_pushed, used,
                  UnchangedByPool >>

\* lines 733-736: while (queue_.empty()) cond_.wait(mlock)
PopCheck(t) ==
  /\ Running
  /\ pc[t] = "pop_check"
  /\ IF queue_ = << >>
     THEN /\ cond_' = cond_ \cup {t}
          /\ mutex_' = IF mutex_ = t THEN NoThread ELSE mutex_
          /\ pc' = [pc EXCEPT ![t] = "pop_wait"]
     ELSE /\ pc' = [pc EXCEPT ![t] = "pop_front"]
          /\ UNCHANGED << cond_, mutex_ >>
  /\ UNCHANGED << queue_, held, n_acquire, n_returned, n_pushed, used,
                  UnchangedByPool >>

\* cond_.wait may return without a notification (spurious wake-up)
SpuriousWake(t) ==
  /\ Running
  /\ pc[t] = "pop_wait"
  /\ t \in cond_
  /\ cond_' = cond_ \ {t}
  /\ pc' = [pc EXCEPT ![t] = "pop_woken"]
  /\ UNCHANGED << queue_, mutex_, held, n_acquire, n_returned, n_pushed, used,
                  UnchangedByPool >>

\* cond_.wait re-acquires the mutex before it returns
PopRelock(t) ==
  /\ Running
  /\ pc[t] = "pop_woken"
  /\ mutex_ = NoThread
  /\ mutex_' = t
  /\ pc' = [pc EXCEPT ![t] = "pop_check"]
  /\ UNCHANGED << queue_, cond_, held, n_acquire, n_returned, n_pushed, used,
                  UnchangedByPool >>

\* pop_ that takes the back of the queue and removes the front (a slip)
PopFront_Back(t) ==
  /\ Running
  /\ pc[t] = "pop_front"
  /\ queue_ # << >>
  /\ held' = [held EXCEPT ![t] = queue_[Len(queue_)]]
  /\ pc' = [pc EXCEPT ![t] = "pop_pop"]
  /\ UNCHANGED << queue_, mutex_, cond_, n_acquire, n_returned, n_pushed, used,
                  UnchangedByPool >>
\* line 737: auto item = queue_.front()
PopFront(t) ==
  /\ Running
  /\ pc[t] = "pop_front"
  /\ queue_ # << >>
  /\ held' = [held EXCEPT ![t] = Head(queue_)]
  /\ pc' = [pc EXCEPT ![t] = "pop_pop"]
  /\ UNCHANGED << queue_, mutex_, cond_, n_acquire, n_returned, n_pushed, used,
                  UnchangedByPool >>

\* pop_ that returns the front without removing it (a slip)
PopPop_NoPop(t) ==
  /\ Running
  /\ pc[t] = "pop_pop"
  /\ mutex_' = IF mutex_ = t THEN NoThread ELSE mutex_
  /\ pc' = [pc EXCEPT ![t] = "holding"]
  /\ n_returned' = n_returned + 1
  /\ used' = [used EXCEPT ![held[t]] = IF @ >= 1 THEN 2 ELSE @]
  /\ UNCHANGED << queue_, cond_, held, n_acquire, n_pushed, UnchangedByPool >>
\* lines 738-740: queue_.pop(); return item (mlock is released on return)
PopPop(t) ==
  /\ Running
  /\ pc[t] = "pop_pop"
  /\ queue_ # << >>
  /\ queue_' = Tail(queue_)
  /\ mutex_' = IF mutex_ = t THEN NoThread ELSE mutex_
  /\ pc' = [pc EXCEPT ![t] = "holding"]
  /\ n_returned' = n_returned + 1
  /\ used' = [used EXCEPT ![held[t]] = IF @ >= 1 THEN 2 ELSE @]
  /\ UNCHANGED << cond_, held, n_acquire, n_pushed, UnchangedByPool >>

\* a thread calls release(decoder) with the decoder it holds
ReleaseStart(t) ==
  /\ Running
  /\ pc[t] = "holding"
  /\ pc' = [pc EXCEPT ![t] = "push_lock"]
  /\ UNCHANGED << queue_, mutex_, cond_, held, n_acquire, n_returned, n_pushed,
                  used, UnchangedByPool >>

\* line 724: std::unique_lock<std::mutex> mlock(mutex_)
PushLock(t) ==
  /\ Running
  /\ pc[t] = "push_lock"
  /\ mutex_ = NoThread
  /\ mutex_' = t
  /\ pc' = [pc EXCEPT ![t] = "push_push"]
  /\ UNCHANGED << queue_, cond_, held, n_acquire, n_returned, n_pushed, used,
                  UnchangedByPool >>

\* lines 725-726: queue_.push(item); mlock.unlock()
PushPush(t) ==
  /\ Running
  /\ pc[t] = "push_push"
  /\ queue_' = Append(queue_, held[t])
  /\ mutex_' = NoThread
  /\ n_pushed' = n_pushed + 1
  /\ pc' = [pc EXCEPT ![t] = "push_notify"]
  /\ UNCHANGED << cond_, held, n_acquire, n_returned, used, UnchangedByPool >>

\* push_ without the notification (a slip)
PushNotify_Lost(t) ==
  /\ Running
  /\ pc[t] = "push_notify"
  /\ pc' = [pc EXCEPT ![t] = "idle"]
  /\ held' = [held EXCEPT ![t] = NoDecoder]
  /\ UNCHANGED << queue_, mutex_, cond_, n_acquire, n_returned, n_pushed, used,
                  UnchangedByPool >>
\* line 727: cond_.notify_one(), then push_ and release return
PushNotify(t) ==
  /\ Running
  /\ pc[t] = "push_notify"
  /\ IF cond_ = {}
     THEN /\ pc' = [pc EXCEPT ![t] = "idle"]
          /\ UNCHANGED cond_
     ELSE \E w \in cond_ :
            /\ cond_' = cond_ \ {w}
            /\ pc' = [pc EXCEPT ![t] = "idle", ![w] = "pop_woken"]
  /\ held' = [held EXCEPT ![t] = NoDecoder]
  /\ UNCHANGED << queue_, mutex_, n_acquire, n_returned, n_pushed, used,
                  UnchangedByPool >>

(***************************************************************************)
(* Calls on a Decoder by the caller that has it.  The lattice and the      *)
(* alignment outcome come from the engine and are inputs of the call.      *)
(***************************************************************************)
Paths ==
  { [word_ids |-> << 1 >>, lm |-> 1, am |-> 2],
    [word_ids |-> << 1, 2 >>, lm |-> 3, am |-> 2] }

Lattices == UNION { [1..k -> Paths] : k \in 0..MaxPaths }

\* the lattices decoder_->GetLattice can yield: it is called only after
\* NumFramesDecoded() > 0 (lines 441-448)
LatticesOf(d) ==
  IF d.decoder_.null THEN { << >> }
  ELSE IF d.decoder_.frames = 0 THEN { << >> }
  ELSE Lattices

OneBests ==
  UNION { [1..k -> { [id |-> 1, t0 |-> 0, t1 |-> 2, conf |-> 1] }] : k \in 0..MaxWords }

Alignments == [ok : BOOLEAN, start_valid : BOOLEAN, one_best : OneBests]
NoAlignment == [ok |-> FALSE, start_valid |-> FALSE, one_best |-> << >>]

\* the outcomes of WordAlignLattice / MinimumBayesRisk: they run only behind
\* the guards of lines 521 and 550
AlignmentsOf(d, clat, n_best, word_level) ==
  IF d.decoder_.null THEN { NoAlignment }
  ELSE IF d.decoder_.frames = 0 \/ clat = << >> \/ n_best = 0 THEN { NoAlignment }
  ELSE IF ~(d.options.enable_word_level /\ word_level) THEN { NoAlignment }
  ELSE Alignments

Crashes(how) == how \in {"segv", "abort"}

\* the caller calls start_decoding(uuid) on decoder s
CallStart(s, uuid) ==
  /\ decoders' = [decoders EXCEPT ![s] = start_decoding(@, uuid)]
  /\ life' = [life EXCEPT ![s] = "started"]
  /\ outcome' = "ok"
  /\ last' = [op |-> "start", uuid |-> uuid, had |-> Allocated(decoders[s]),
              calls |-> FreeCalls(decoders[s])]
  /\ UNCHANGED << result_vec, call, crashed >>

\* the caller calls free_decoder() on decoder s
CallFree(s) ==
  /\ decoders' = [decoders EXCEPT ![s] = free_decoder(@)]
  /\ life' = [life EXCEPT ![s] = "freed"]
  /\ outcome' = "ok"
  /\ last' = [op |-> "free", calls |-> FreeCalls(decoders[s])]
  /\ UNCHANGED << result_vec, call, crashed >>

\* What a streaming caller hands over in one call.  entry "wav":
\* decode_stream_wav_chunk, bad = WaveData::Read raises an error, size = the
\* samples it delivers otherwise.  entry "raw": decode_stream_raw_wav_chunk,
\* bad = the stream is bad after the read, size = data_bytes.
Streams(max_bytes) ==
  { c \in [entry : {"wav", "raw"}, bad : BOOLEAN, size : 0..max_bytes,
           empty_matrix_ok : BOOLEAN] :
      /\ c.bad => c.size = 0
      /\ c.entry = "wav" => c.size <= max_bytes \div 2
      /\ c.empty_matrix_ok => (c.entry = "raw" /\ ~c.bad /\ c.size = 1) }

StreamChunks == Streams(MaxBytes)

\* chunks of a WAV stream that is read without error
WavChunks == { c \in StreamChunks : c.entry = "wav" /\ ~c.bad }

\* the samples of a chunk that reach _decode_wave
Samples(c) == IF c.entry = "wav" THEN c.size ELSE c.size \div 2

decode_stream_chunk(d, c) ==
  IF c.entry = "wav"
  THEN decode_stream_wav_chunk(d, [ok |-> ~c.bad, n |-> c.size])
  ELSE decode_stream_raw_wav_chunk(d, c.bad, c.size, c.empty_matrix_ok)

\* the caller feeds decoder s one chunk (decode_stream_wav_chunk or
\* decode_stream_raw_wav_chunk)
CallDecode(s, c) ==
  \E r \in { decode_stream_chunk(decoders[s], c) } :
      /\ r.d.silence_weighting_.tracebacks <= MaxTracebacks
      /\ IF r.d.feature_pipeline_.null THEN TRUE
         ELSE r.d.feature_pipeline_.samples <= MaxSamples
      /\ decoders' = [decoders EXCEPT ![s] = r.d]
      /\ crashed' = Crashes(r.outcome)
      /\ outcome' = r.outcome
      /\ life' = [life EXCEPT ![s] =
                    IF @ = "started" /\ r.calls # << >> THEN "fed" ELSE @]
      /\ last' = [op |-> "chunk", chunk |-> c, calls |-> r.calls]
      /\ UNCHANGED << result_vec, call >>

\* the caller calls get_decoded_results on decoder s with the vector res_in
CallGetResults(s, n_best, res_in, word_level, bidi_streaming, clat, align) ==
  \E r \in { get_decoded_results(decoders[s], model_spec, n_best, res_in,
                                 word_level, bidi_streaming, clat, align) } :
      /\ decoders' = [decoders EXCEPT ![s] = r.d]
      /\ result_vec' = r.results
      /\ call' = [res_in |-> res_in, n_best |-> n_best, word_level |-> word_level]
      /\ crashed' = Crashes(r.outcome)
      /\ life' = [life EXCEPT ![s] =
                    IF r.outcome = "ok" /\ ~bidi_streaming THEN "finalized" ELSE @]
      /\ outcome' = r.outcome
      /\ last' = [op |-> "results", bidi_streaming |-> bidi_streaming,
                  calls |-> r.calls]

\* threads of the pool using the decoder they acquired
StartDecoding(t) ==
  /\ Running
  /\ pc[t] = "holding"
  /\ \E uuid \in Uuids : CallStart(held[t], uuid)
  /\ UNCHANGED << build_vars, pool_vars, used >>

FreeDecoder(t) ==
  /\ Running
  /\ pc[t] = "holding"
  /\ CallFree(held[t])
  /\ UNCHANGED << build_vars, pool_vars, used >>

DecodeChunk(t) ==
  /\ Running
  /\ pc[t] = "holding"
  /\ \E c \in WavChunks : CallDecode(held[t], c)
  /\ UNCHANGED << build_vars, pool_vars, used >>

GetDecodedResults(t) ==
  /\ Running
  /\ pc[t] = "holding"
  /\ \E n_best \in 0..MaxPoolNBest, word_level \in BOOLEAN, bidi_streaming \in BOOLEAN :
     \E clat \in LatticesOf(decoders[held[t]]) :
     \E align \in AlignmentsOf(decoders[held[t]], clat, n_best, word_level) :
       /\ CallGetResults(held[t], n_best, << >>, word_level, bidi_streaming, clat, align)
       /\ used' = [used EXCEPT ![held[t]] =
                     IF @ = 0 /\ life'[held[t]] = "finalized" THEN 1 ELSE @]
  /\ UNCHANGED << build_vars, pool_vars >>

\* a step of thread t inside acquire() or release()
PoolStep(t) ==
  \/ AcquireStart(t)
  \/ PopLock(t)
  \/ PopCheck(t)
  \/ SpuriousWake(t)
  \/ PopRelock(t)
  \/ PopFront(t)
  \/ PopPop(t)
  \/ ReleaseStart(t)
  \/ PushLock(t)
  \/ PushPush(t)
  \/ PushNotify(t)

\* a call of thread t on the decoder it holds
UseStep(t) ==
  \/ StartDecoding(t)
  \/ DecodeChunk(t)
  \/ GetDecodedResults(t)
  \/ FreeDecoder(t)

\* The pool under NumThreads threads that only acquire and release.
Next ==
  \/ NewFactory
  \/ Produce
  \/ \E t \in Threads : PoolStep(t)

Spec == Init /\ [][Next]_vars

\* how often decoder s is in the queue
Occurrences(s) == Cardinality({ i \in 1..Len(queue_) : queue_[i] = s })

\* DecoderQueue::~DecoderQueue, run by the owner of the pool while no thread
\* is inside acquire() or release(): every pointer in queue_ is popped and
\* deleted (lines 716-720), and Decoder::~Decoder frees the decoder's
\* per-utterance objects (292).  Deleting a pointer a second time is
\* undefined.
Destructor ==
  /\ Running
  /\ \A t \in Threads : pc[t] \in {"idle", "holding"}
  /\ pool_pc' = "destroyed"
  /\ queue_' = << >>
  /\ decoders' = [s \in DOMAIN decoders |->
                    IF Occurrences(s) > 0 THEN free_decoder(decoders[s])
                    ELSE decoders[s]]
  /\ life' = [s \in DOMAIN decoders |->
                IF Occurrences(s) > 0 THEN "deleted" ELSE life[s]]
  /\ crashed' = \E s \in DOMAIN decoders : Occurrences(s) > 1
  /\ UNCHANGED << model_spec, files, reads, conf, extract, mutex_, cond_, pc,
                  held, n_acquire, n_returned, n_pushed, used, call_vars >>

\* The pool with its threads, destroyed at some moment.
NextTeardown ==
  \/ NewFactory
  \/ Produce
  \/ \E t \in Threads : PoolStep(t)
  \/ Destructor

SpecTeardown == Init /\ [][NextTeardown]_vars

\* The pool under NumCallers threads that also use what they acquire.
NextUse ==
  \/ NewFactory
  \/ Produce
  \/ \E t \in Callers : PoolStep(t) \/ UseStep(t)

\* a pool of one decoder
InitUse == Init /\ model_spec.n_decoders = 1

SpecUse == InitUse /\ [][NextUse]_vars

(***************************************************************************)
(* One Decoder obtained from a DecoderFactory and used directly, without   *)
(* a DecoderQueue.                                                         *)
(***************************************************************************)
InitDirect ==
  /\ model_spec \in { m \in ModelSpecs : m.n_decoders = 1 }
  /\ files \in GoodDirs
  /\ pool_pc = "direct"
  /\ reads = DecoderReads([hclg |-> 1, mdl |-> 0, words |-> 0, word_boundary |-> 0], files)
  /\ decoders = << DecoderCtor(model_spec, files) >>
  /\ queue_ = << >>
  /\ mutex_ = NoThread
  /\ cond_ = {}
  /\ pc = [t \in Threads |-> "idle"]
  /\ held = [t \in Threads |-> NoDecoder]
  /\ n_acquire = 0
  /\ n_returned = 0
  /\ n_pushed = 0
  /\ life = << "constructed" >>
  /\ used = << 0 >>
  /\ outcome = "none"
  /\ result_vec = << >>
  /\ call = NoCall
  /\ last = NoLast
  /\ conf = NoConf
  /\ extract = NoExtract
  /\ crashed = FALSE

\* a non-streaming call is inside its loop
Busy == last.op = "audio" /\ last.running

Direct == pool_pc = "direct" /\ ~crashed /\ ~Busy

DirectStart ==
  /\ Direct
  /\ \E uuid \in Uuids : CallStart(1, uuid)
  /\ UNCHANGED << build_vars, pool_vars, used >>

DirectFree ==
  /\ Direct
  /\ CallFree(1)
  /\ UNCHANGED << build_vars, pool_vars, used >>

DirectDecode ==
  /\ Direct
  /\ \E c \in WavChunks : CallDecode(1, c)
  /\ UNCHANGED << build_vars, pool_vars, used >>

\* the caller passes a new vector or the one of the previous call
DirectGetResults ==
  /\ Direct
  /\ \E n_best \in 0..MaxNBest, word_level \in BOOLEAN, bidi_streaming \in BOOLEAN,
        res_in \in {<< >>, result_vec} :
     \E clat \in LatticesOf(decoders[1]) :
     \E align \in AlignmentsOf(decoders[1], clat, n_best, word_level) :
       /\ Len(res_in) + n_best <= MaxResults
       /\ CallGetResults(1, n_best, res_in, word_level, bidi_streaming, clat, align)
  /\ UNCHANGED << build_vars, pool_vars, used >>

NextDirect ==
  \/ DirectStart
  \/ DirectDecode
  \/ DirectGetResults
  \/ DirectFree

SpecDirect == InitDirect /\ [][NextDirect]_vars

(***************************************************************************)
(* One Decoder used directly through every entry point that takes audio:   *)
(* the streaming calls on WAV and raw chunks and the non-streaming calls    *)
(* decode_wav_audio / decode_raw_wav_audio, whose loop takes one step per   *)
(* iteration.                                                               *)
(***************************************************************************)
INT32_MAX == 2147483647
INT32_MIN == (-INT32_MAX) - 1

\* sample rates (samples per second) and chunk sizes (in half seconds)
SampFreqs == {1, 4}
ChunkSizes == { Fin(-2), Fin(0), Fin(1), Fin(2), Fin(INT32_MAX), NaN }

\* chunk_size > 0
Positive(x) == x.k # "nan" /\ FLess(Zero, x)

\* int32(samp_freq * chunk_size) for chunk_size > 0: the truncated product
\* when an int32 can hold it; otherwise the conversion is undefined and
\* yields what the machine's instruction leaves: the smallest int32 or the
\* largest
ToInt32(samp_freq, chunk_size) ==
  IF chunk_size.k = "inf" THEN {INT32_MIN, INT32_MAX}
  ELSE IF chunk_size.v \div 2 > INT32_MAX \div samp_freq THEN {INT32_MIN, INT32_MAX}
  ELSE { samp_freq * (chunk_size.v \div 2) + (samp_freq * (chunk_size.v % 2)) \div 2 }

\* lines 374-382 / 408-416: the values chunk_length can take
ChunkLength(samp_freq, chunk_size) ==
  IF Positive(chunk_size)
  THEN { IF n = 0 THEN 1 ELSE n : n \in ToInt32(samp_freq, chunk_size) }
  ELSE { INT32_MAX }

\* line 389 / 423: num_samp
NumSamp(chunk_length, samp_remaining) ==
  IF chunk_length < samp_remaining THEN chunk_length ELSE samp_remaining

\* decode_wav_audio / decode_raw_wav_audio up to the loop: the stream is
\* read and chunk_length is set
AudioBegin ==
  /\ Direct
  /\ \E c \in Streams(2 * MaxAudio), samp_freq \in SampFreqs, chunk_size \in ChunkSizes :
     \E chunk_length \in ChunkLength(samp_freq, chunk_size) :
     \E how \in { IF c.entry = "wav"
                   THEN (IF c.bad THEN "exception" ELSE "ok")
                   ELSE read_raw_wav_stream(c.bad, c.size, c.empty_matrix_ok).how } :
       /\ IF decoders[1].feature_pipeline_.null THEN TRUE
          ELSE decoders[1].feature_pipeline_.samples + Samples(c) <= MaxAudio
       /\ decoders[1].silence_weighting_.tracebacks + Samples(c) <= MaxAudio
       /\ last' = [op |-> "audio", read |-> how, running |-> how = "ok", chunk |-> c,
                   samp_freq |-> samp_freq, chunk_size |-> chunk_size,
                   dim |-> Samples(c), chunk_length |-> chunk_length,
                   samp_offset |-> 0, parts |-> << >>, calls |-> << >>]
       /\ outcome' = IF how = "ok" THEN "running" ELSE how
       /\ crashed' = Crashes(how)
  /\ UNCHANGED << build_vars, pool_vars, used, decoders, life, result_vec, call >>

\* one test of the loop condition and, if it holds, one round of the loop
\* (lines 387-395 / 421-429); a wave part of negative length fails the
\* range check of kaldi::SubVector
AudioStep ==
  /\ pool_pc = "direct"
  /\ ~crashed
  /\ Busy
  /\ IF last.samp_offset < last.dim
     THEN LET num_samp == NumSamp(last.chunk_length, last.dim - last.samp_offset)
          IN  IF num_samp < 0
              THEN /\ last' = [last EXCEPT !.running = FALSE]
                   /\ outcome' = "abort"
                   /\ crashed' = TRUE
                   /\ UNCHANGED << decoders, life >>
              ELSE \E r \in { decode_wave(decoders[1], num_samp) } :
                     /\ decoders' = [decoders EXCEPT ![1] = r.d]
                     /\ life' = [life EXCEPT ![1] =
                                   IF @ = "started" /\ r.calls # << >> THEN "fed" ELSE @]
                     /\ crashed' = Crashes(r.outcome)
                     /\ IF r.outcome = "ok"
                        THEN /\ last' = [last EXCEPT
                                           !.samp_offset = @ + num_samp,
                                           !.parts = Append(@, num_samp),
                                           !.calls = r.calls]
                             /\ outcome' = "running"
                        ELSE /\ last' = [last EXCEPT !.running = FALSE,
                                                     !.calls = r.calls]
                             /\ outcome' = r.outcome
     ELSE /\ last' = [last EXCEPT !.running = FALSE]
          /\ outcome' = "ok"
          /\ UNCHANGED << decoders, life, crashed >>
  /\ UNCHANGED << build_vars, pool_vars, used, result_vec, call >>

SessionDecode ==
  /\ Direct
  /\ \E c \in StreamChunks : CallDecode(1, c)
  /\ UNCHANGED << build_vars, pool_vars, used >>

\* the caller passes a new vector
SessionGetResults ==
  /\ Direct
  /\ \E n_best \in 0..MaxPoolNBest, word_level \in BOOLEAN, bidi_streaming \in BOOLEAN :
     \E clat \in LatticesOf(decoders[1]) :
     \E align \in AlignmentsOf(decoders[1], clat, n_best, word_level) :
       CallGetResults(1, n_best, << >>, word_level, bidi_streaming, clat, align)
  /\ UNCHANGED << build_vars, pool_vars, used >>

NextSession ==
  \/ DirectStart
  \/ DirectFree
  \/ SessionDecode
  \/ SessionGetResults

SpecSession == InitDirect /\ [][NextSession]_vars

NextAudio ==
  \/ DirectStart
  \/ AudioBegin
  \/ AudioStep

SpecAudio == InitDirect /\ [][NextAudio]_vars

(***************************************************************************)
(* Result extraction alone: get_decoded_results applied once to a Decoder  *)
(* in the middle of an utterance, over every lattice, n_best, word_level,  *)
(* bidi_streaming, alignment outcome and result vector of the bounds.      *)
(***************************************************************************)
\* the vectors a caller passes: a new one, or one that holds an alternative
ResultVectors == { << >> } \cup { << MakeAlternative(l) >> : l \in Paths }

InitExtract ==
  /\ model_spec \in { m \in ModelSpecs : m.n_decoders = 1 }
  /\ files \in GoodDirs
  /\ pool_pc = "extract"
  /\ reads = DecoderReads([hclg |-> 1, mdl |-> 0, words |-> 0, word_boundary |-> 0], files)
  /\ \E n \in 0..MaxSamples :
       decoders = << decode_wave(start_decoding(DecoderCtor(model_spec, files), "u1"), n).d >>
  /\ queue_ = << >>
  /\ mutex_ = NoThread
  /\ cond_ = {}
  /\ pc = [t \in Threads |-> "idle"]
  /\ held = [t \in Threads |-> NoDecoder]
  /\ n_acquire = 0
  /\ n_returned = 0
  /\ n_pushed = 0
  /\ life = << "fed" >>
  /\ used = << 0 >>
  /\ outcome = "ok"
  /\ result_vec = << >>
  /\ call = NoCall
  /\ last = NoLast
  /\ conf = NoConf
  /\ \E n_best \in 0..MaxNBest, word_level \in BOOLEAN, bidi_streaming \in BOOLEAN,
        res_in \in ResultVectors, clat \in LatticesOf(decoders[1]) :
       extract = [done |-> FALSE, d |-> decoders[1], n_best |-> n_best,
                  word_level |-> word_level, bidi_streaming |-> bidi_streaming,
                  res_in |-> res_in, clat |-> clat, align |-> NoAlignment]
  /\ crashed = FALSE

\* get_decoded_results on the lattice and with the arguments drawn
ExtractResults ==
  /\ pool_pc = "extract"
  /\ ~extract.done
  /\ \E align \in AlignmentsOf(decoders[1], extract.clat, extract.n_best,
                                extract.word_level) :
       /\ CallGetResults(1, extract.n_best, extract.res_in, extract.word_level,
                         extract.bidi_streaming, extract.clat, align)
       /\ extract' = [extract EXCEPT !.done = TRUE, !.align = align]
  /\ UNCHANGED << model_spec, files, pool_pc, reads, conf, pool_vars, used >>

NextExtract == ExtractResults

SpecExtract == InitExtract /\ [][NextExtract]_vars

\* The pool under weak fairness of every step inside acquire() and
\* release(): a thread that can take its next step is eventually scheduled.
\* Calling acquire() or release() and spurious wake-ups are not forced.
Fairness ==
  \A t \in Threads :
    /\ WF_vars(PopLock(t))
    /\ WF_vars(PopCheck(t))
    /\ WF_vars(PopRelock(t))
    /\ WF_vars(PopFront(t))
    /\ WF_vars(PopPop(t))
    /\ WF_vars(PushLock(t))
    /\ WF_vars(PushPush(t))
    /\ WF_vars(PushNotify(t))

SpecLive == Init /\ [][Next]_vars /\ Fairness

(***************************************************************************)
(* calculate_confidence applied to scores and word counts drawn from a     *)
(* set that holds ordinary, extreme and non-finite values.                 *)
(***************************************************************************)
Scores ==
  { Fin(-100000), Fin(-500), Fin(-50), Fin(0), Fin(50), Fin(100000),
    PInf, NInf, NaN }
WordCounts == 0..MaxWordCount \cup {SIZE_MAX}

InitConf ==
  /\ model_spec \in { m \in ModelSpecs : m.n_decoders = 1 /\ ~m.silence_active }
  /\ files = [word_boundary |-> FALSE, broken |-> "none"]
  /\ pool_pc = "unbuilt"
  /\ reads = [hclg |-> 0, mdl |-> 0, words |-> 0, word_boundary |-> 0]
  /\ decoders = << >>
  /\ queue_ = << >>
  /\ mutex_ = NoThread
  /\ cond_ = {}
  /\ pc = [t \in Threads |-> "idle"]
  /\ held = [t \in Threads |-> NoDecoder]
  /\ n_acquire = 0
  /\ n_returned = 0
  /\ n_pushed = 0
  /\ life = << >>
  /\ used = << >>
  /\ outcome = "none"
  /\ result_vec = << >>
  /\ call = NoCall
  /\ last = NoLast
  /\ conf \in [lm_score : Scores, am_score : Scores, n_words : WordCounts,
               done : {FALSE}, result : {Zero}]
  /\ extract = NoExtract
  /\ crashed = FALSE

CallConfidence ==
  /\ ~conf.done
  /\ conf' = [conf EXCEPT !.done = TRUE,
                          !.result = calculate_confidence(conf.lm_score, conf.am_score,
                                                          conf.n_words)]
  /\ UNCHANGED << model_spec, files, pool_pc, reads, decoders, pool_vars, life,
                  used, call_vars, extract, crashed >>

NextConf == CallConfidence

SpecConf == InitConf /\ [][NextConf]_vars

(***************************************************************************)
(* Properties.                                                             *)
(***************************************************************************)
Produced == 1..Len(decoders)

\* threads between the return of acquire() and the return of release()
InCustody(s) ==
  { t \in Threads : held[t] = s /\
      pc[t] \in {"holding", "push_lock", "push_push", "push_notify"} }

\* threads between the return of acquire() and the push of release()
Holders(s) ==
  { t \in Threads : held[t] = s /\ pc[t] \in {"holding", "push_lock", "push_push"} }

InQueue(s) == \E i \in 1..Len(queue_) : queue_[i] = s

\* C1 as stated: no decoder is in the hands of two threads, a thread having
\* it from the return of its acquire() until its release() has returned.
C1_ExclusiveUntilReleaseReturns ==
  \A s \in Produced : Cardinality(InCustody(s)) <= 1

\* C1 amended: no decoder is held by two threads at once, and none is held
\* while it is in the queue, a thread holding it from the return of its
\* acquire() until its release() has pushed it back under the mutex.
C1_ExclusiveUntilPushed ==
  \A s \in Produced :
    /\ Cardinality(Holders(s)) <= 1
    /\ Holders(s) # {} => ~InQueue(s)

\* two threads hold a decoder each, one of them a decoder released before
C1_Witness ==
  /\ n_pushed >= 1
  /\ \E t1, t2 \in Threads :
       /\ t1 # t2
       /\ pc[t1] = "holding"
       /\ pc[t2] = "holding"

\* C2: acquire() returns at most n_decoders + (releases so far) times, and
\* while nothing has been released a thread blocks in acquire() only after
\* n_decoders acquire() calls have returned.
C2_FirstNWithoutBlocking ==
  /\ n_returned <= model_spec.n_decoders + n_pushed
  /\ n_pushed = 0 =>
       \A t \in Threads :
         pc[t] \in {"pop_wait", "pop_woken"} => n_returned = model_spec.n_decoders

\* a pool of two, both acquired, nothing released, and a third caller blocked
C2_Witness ==
  /\ model_spec.n_decoders = 2
  /\ n_returned = 2
  /\ n_pushed = 0
  /\ \E t \in Threads : pc[t] = "pop_wait" /\ t \in cond_

Blocked == { t \in Threads : pc[t] \in {"pop_wait", "pop_woken"} }
NowHolding == { t \in Threads : pc[t] = "holding" }

\* one step lets at most one acquire() return, takes the decoder it returns
\* off the queue, and wakes at most one waiter
OneReturnPerStep ==
  /\ Cardinality(NowHolding' \ NowHolding) <= 1
  /\ NowHolding' \ NowHolding # {} => Len(queue_') = Len(queue_) - 1
  /\ Cardinality(cond_ \ cond_') <= 1
  /\ n_returned' <= model_spec.n_decoders + n_pushed'

\* C3: under weak fairness, whenever the queue is non-empty and a thread is
\* blocked in acquire(), some acquire() returns; and a release lets exactly
\* one acquire() return: every step returns at most one decoder, taken from
\* the queue, and the returns never exceed n_decoders plus the pushes.
C3_NoLostWakeup ==
  /\ \A k \in 0..MaxAcquires :
       (queue_ # << >> /\ Blocked # {} /\ n_returned = k) ~> (n_returned > k)
  /\ [][OneReturnPerStep]_vars

\* one release into the empty pool of one decoder has woken one of two
\* waiters; the other is still waiting on the condition variable
C3_Witness ==
  /\ n_pushed = 1
  /\ queue_ # << >>
  /\ \E w1, w2 \in Threads :
       /\ w1 # w2
       /\ pc[w1] = "pop_woken"
       /\ pc[w2] = "pop_wait"
       /\ w2 \in cond_

\* C4 as stated: a decoder that sits in the pool has an empty uuid.
C4_UuidClearedByRelease ==
  \A i \in 1..Len(queue_) : decoders[queue_[i]].uuid_ = ""

\* C4 amended: release() leaves the uuid as it is.  Wherever the decoder is
\* (held or in the pool), its uuid is empty exactly when free_decoder() was
\* the last call on it or start_decoding was never called, and is the
\* non-empty uuid of the last start_decoding otherwise.
C4_UuidClearedByFree ==
  \A s \in Produced :
    /\ life[s] \in {"constructed", "freed"} => decoders[s].uuid_ = ""
    /\ life[s] \in {"started", "fed", "finalized"} => decoders[s].uuid_ \in Uuids

\* a started decoder was freed and released: it sits in the pool, uuid empty
C4_Witness ==
  /\ n_pushed >= 1
  /\ \E i \in 1..Len(queue_) :
       /\ life[queue_[i]] = "freed"
       /\ decoders[queue_[i]].uuid_ = ""

\* the per-utterance members of a Decoder
PerUtterance(d) ==
  [ feature_pipeline_ |-> d.feature_pipeline_,
    decoder_ |-> d.decoder_,
    silence_weighting_ |-> d.silence_weighting_,
    uuid_ |-> d.uuid_ ]

Fed(s) ==
  /\ ~decoders[s].feature_pipeline_.null
  /\ ~decoders'[s].feature_pipeline_.null
  /\ decoders'[s].feature_pipeline_.samples > decoders[s].feature_pipeline_.samples

\* C6: a step adds samples to a decoder's feature pipeline only between a
\* start_decoding and the next finalizing get_decoded_results or free.
C6_AudioOnlyWhileDecoding ==
  [][\A s \in Produced : Fed(s) => life[s] \in {"started", "fed"}]_vars

\* a chunk with samples was given to a finalized decoder and was refused
C6_Witness ==
  /\ Len(decoders) >= 1
  /\ life[1] = "finalized"
  /\ outcome = "exception"
  /\ decoders[1].feature_pipeline_.input_finished

\* C7: once the pool is built every model file has been read once.
C7_ModelLoadedOnce ==
  pool_pc = "ready" =>
    /\ reads.hclg = 1
    /\ reads.mdl = 1
    /\ reads.words = 1
    /\ reads.word_boundary <= 1

\* the alternatives the last get_decoded_results call added
Added == (Len(call.res_in) + 1)..Len(result_vec)

\* C8: an alternative added by get_decoded_results has words only if it is
\* the first entry of the vector, word-boundary data was loaded and the
\* call asked for word level; and the call changes the words of an entry
\* the vector already had only under the same three conditions.
C8_WordsOnlyOnFirst ==
  /\ \A i \in Added :
       result_vec[i].words # << >> =>
         /\ i = 1
         /\ decoders[1].options.enable_word_level
         /\ call.word_level
  /\ \A i \in 1..Len(call.res_in) :
       (i <= Len(result_vec) /\ result_vec[i].words # call.res_in[i].words) =>
         /\ i = 1
         /\ decoders[1].options.enable_word_level
         /\ call.word_level

\* a call added two alternatives; the first has words, the second has none
C8_Witness ==
  /\ call.res_in = << >>
  /\ Len(result_vec) >= 2
  /\ result_vec[1].words # << >>
  /\ result_vec[2].words = << >>

AltCost(a) == a.lm_score + a.am_score

\* C9: a call with n_best = k adds at most k alternatives, in
\* non-decreasing order of path cost.
C9_AtMostKInCostOrder ==
  /\ Cardinality(Added) <= call.n_best
  /\ \A i, j \in Added : i < j => AltCost(result_vec[i]) <= AltCost(result_vec[j])

\* a call added two alternatives of different cost
C9_Witness ==
  /\ Cardinality(Added) = 2
  /\ \E i, j \in Added : AltCost(result_vec[i]) < AltCost(result_vec[j])

\* C10: calculate_confidence returns a finite value from 0 to 1.
C10_ConfidenceInUnitInterval ==
  conf.done =>
    /\ conf.result.k = "fin"
    /\ conf.result.v >= 0
    /\ conf.result.v <= 1000000

\* a call whose unclamped value is finite and below -10 returned 0
C10_Witness ==
  /\ conf.done
  /\ LET a == Affine(conf.lm_score, conf.am_score, conf.n_words)
     IN  a.k = "fin" /\ a.v < -10000000
  /\ conf.result = Zero

\* a chunk that holds no sample of audio, handed over by a good stream
ZeroChunk(c) == ~c.bad /\ Samples(c) = 0

\* decoder s is in the Decoding state
Decoding(s) == life[s] \in {"started", "fed"}

\* C11: on a session in the Decoding state a decode-chunk call with zero
\* samples, through any streaming entry point, ends without an error, and a
\* get_decoded_results (bidi_streaming = false) that follows it on a session
\* that has no audio ends without an error and leaves the result empty.
C11_ZeroSamplesNoError ==
  [][/\ (last'.op = "chunk" /\ ZeroChunk(last'.chunk) /\ Decoding(1))
        => outcome' = "ok"
     /\ (/\ last.op = "chunk" /\ ZeroChunk(last.chunk) /\ outcome = "ok"
         /\ Decoding(1)
         /\ decoders[1].feature_pipeline_.samples = 0
         /\ last'.op = "results" /\ ~last'.bidi_streaming)
        => (outcome' = "ok" /\ result_vec' = << >>)]_vars

\* C13: with a required file missing or malformed no Decoder is ever
\* handed out (the decoding graph: an error leaves the constructors; any
\* other file: the process is ended) and the pool is never ready;
\* construction fails for no other reason; and a Decoder built from a
\* directory without word_boundary.int has word-level output disabled, one
\* built from a directory with it has it enabled.
C13_BrokenModelBuildsNothing ==
  /\ files.broken # "none" =>
       (pool_pc # "ready" /\ decoders = << >> /\ queue_ = << >>)
  /\ pool_pc = "failed" => files.broken = "HCLG.fst"
  /\ pool_pc = "terminated" => (files.broken \notin {"none", "HCLG.fst"} /\ crashed)
  /\ \A s \in Produced :
       decoders[s].options.enable_word_level = files.word_boundary

\* the symbol table could not be read: the process was ended during the
\* first produce(), with the decoding graph and the model already read
C13_Witness ==
  /\ files.broken = "words.txt"
  /\ pool_pc = "terminated"
  /\ reads.hclg = 1
  /\ reads.mdl = 1
  /\ decoders = << >>

\* the positions of an engine call in the calls of the last Decoder method
Positions(name) == { i \in 1..Len(last.calls) : last.calls[i] = name }

\* C14: in every per-chunk decode step the samples are accepted first;
\* then, exactly when silence weighting is active and the ivector feature
\* exists, the traceback is computed, the delta weights are derived and
\* applied; only then the search is advanced, once (a step that ends in
\* AcceptWaveform's error makes no further call)
C14_DecodeStepOrder ==
  (last.op = "chunk" /\ last.calls # << >>) =>
    /\ Head(last.calls) = "AcceptWaveform"
    /\ Positions("AcceptWaveform") = {1}
    /\ IF outcome = "exception" THEN Len(last.calls) = 1
       ELSE /\ Positions("AdvanceDecoding") = {Len(last.calls)}
            /\ SubSeq(last.calls, 2, Len(last.calls) - 1) =
                 IF /\ decoders[1].silence_weighting_.active
                    /\ IvectorFeature(decoders[1].feature_pipeline_)
                 THEN << "ComputeCurrentTraceback", "GetDeltaWeights",
                         "UpdateFrameWeights" >>
                 ELSE << >>

C14_Witness ==
  /\ last.op = "chunk"
  /\ outcome = "ok"
  /\ Samples(last.chunk) > 0
  /\ decoders[1].silence_weighting_.active
  /\ decoders[1].silence_weighting_.tracebacks = 1
  /\ Len(last.calls) = 5

\* the sum of a sequence of chunk lengths
RECURSIVE Sum(_)
Sum(seq) == IF seq = << >> THEN 0 ELSE Head(seq) + Sum(Tail(seq))

\* max(1, trunc(samp_freq * chunk_size)) for chunk_size > 0, as far as a
\* buffer of at most MaxAudio samples can tell: a length beyond the int32
\* range is longer than every buffer
StatedChunkLength(samp_freq, chunk_size) ==
  IF chunk_size.k = "inf" THEN INT32_MAX
  ELSE IF chunk_size.v \div 2 > INT32_MAX \div samp_freq THEN INT32_MAX
  ELSE LET n == samp_freq * (chunk_size.v \div 2)
                  + (samp_freq * (chunk_size.v % 2)) \div 2
       IN  IF n < 1 THEN 1 ELSE n

\* C15: a non-streaming call on a session that is decoding, whose stream
\* was read, ends normally having fed consecutive chunks that cover the
\* buffer: with chunk_size > 0 every chunk but the last has
\* max(1, trunc(samp_freq * chunk_size)) samples and the last between 1 and
\* that; with chunk_size <= 0 a non-empty buffer is one chunk; an empty
\* buffer is no chunk
C15_ChunksCoverBuffer ==
  (last.op = "audio" /\ last.read = "ok" /\ ~last.running /\ Decoding(1)) =>
    /\ outcome = "ok"
    /\ Sum(last.parts) = last.dim
    /\ last.dim = 0 => last.parts = << >>
    /\ Positive(last.chunk_size) =>
         LET len == StatedChunkLength(last.samp_freq, last.chunk_size)
         IN  \A i \in 1..Len(last.parts) :
               /\ i < Len(last.parts) => last.parts[i] = len
               /\ last.parts[i] \in 1..len
    /\ (last.chunk_size.k = "fin" /\ last.chunk_size.v <= 0 /\ last.dim > 0) =>
         Len(last.parts) = 1

\* C16: the adaptation state that start_decoding installs in the new
\* feature pipeline is the state the feature pipeline of the utterance
\* before had reached on the same session
C16_AdaptationCarriedOver ==
  [][(/\ last'.op = "start"
      /\ ~decoders[1].feature_pipeline_.null
      /\ life[1] \in {"fed", "finalized"})
     => decoders'[1].feature_pipeline_.adaptation =
          GetAdaptationState(decoders[1].feature_pipeline_)]_vars

\* the feature pipeline of decoder record d exists and its input is closed
InputClosed(d) == ~d.feature_pipeline_.null /\ d.feature_pipeline_.input_finished

\* C17 as stated: once get_decoded_results has returned, whatever
\* bidi_streaming was, the session takes no further audio: a chunk call
\* that follows it adds no samples to the feature pipeline
C17_FinalizedAfterResults ==
  [][(last.op = "results" /\ outcome = "ok" /\ last'.op = "chunk")
     => ~Fed(1)]_vars

\* C17, amended: get_decoded_results with bidi_streaming = false leaves the
\* input closed and the search finalized, and a session whose input is
\* closed takes no audio until start_decoding or free_decoder replaces the
\* pipeline; get_decoded_results with bidi_streaming = true on a session
\* whose input is open leaves it open, and the next chunk with samples is
\* taken
C17_FinalizedUnlessBidi ==
  [][/\ (last'.op = "results" /\ outcome' = "ok" /\ ~last'.bidi_streaming)
          => (InputClosed(decoders'[1]) /\ decoders'[1].decoder_.finalized)
     /\ (InputClosed(decoders[1]) /\ last'.op \notin {"start", "free"})
          => (~Fed(1) /\ InputClosed(decoders'[1]))
     /\ (last'.op = "results" /\ last'.bidi_streaming)
          => decoders'[1] = decoders[1]
     /\ (/\ last.op = "results" /\ outcome = "ok" /\ last.bidi_streaming
         /\ ~InputClosed(decoders[1])
         /\ last'.op = "chunk" /\ ~last'.chunk.bad /\ Samples(last'.chunk) > 0)
          => (outcome' = "ok" /\ Fed(1))]_vars

\* a chunk with samples was refused after a get_decoded_results with
\* bidi_streaming = false had closed the input
C17_Witness ==
  /\ last.op = "chunk"
  /\ Samples(last.chunk) > 0
  /\ outcome = "exception"
  /\ InputClosed(decoders[1])
  /\ decoders[1].decoder_.finalized
  /\ decoders[1].feature_pipeline_.samples = 0

\* C18: a get_decoded_results with bidi_streaming = false signals the end
\* of input first and finalizes the search second, both before the number
\* of decoded frames is read and before the lattice is retrieved; with
\* bidi_streaming = true it does neither
C18_EndOfInputThenFinalize ==
  (last.op = "results" /\ last.calls # << >>) =>
    IF last.bidi_streaming
    THEN Positions("InputFinished") = {} /\ Positions("FinalizeDecoding") = {}
    ELSE /\ Positions("InputFinished") = {1}
         /\ Positions("FinalizeDecoding") = {2}
         /\ Positions("NumFramesDecoded") = {3}
         /\ \A i \in Positions("GetLattice") : i > 3

C18_Witness ==
  /\ last.op = "results"
  /\ ~last.bidi_streaming
  /\ outcome = "ok"
  /\ Positions("GetLattice") = {4}

\* the last call met one of the empty conditions of result extraction: no
\* frame decoded, a lattice without states, or an empty n-best list
EmptyCondition ==
  \/ extract.d.decoder_.frames = 0
  \/ extract.clat = << >>
  \/ ShortestPath(extract.clat, extract.n_best) = << >>

\* C19: a get_decoded_results that meets an empty condition returns
\* normally, leaves the result vector as it was passed, and runs neither the
\* word aligner nor what follows it
C19_EmptyConditionsEndNormally ==
  (extract.done /\ EmptyCondition) =>
    /\ outcome = "ok"
    /\ ~crashed
    /\ result_vec = extract.res_in
    /\ Positions("WordAlignLattice") = {}
    /\ Positions("MinimumBayesRisk") = {}

\* word level was asked of a decoder that has word-boundary data, on a lattice
\* with paths and a non-empty vector, with n_best = 0: nothing was added
C19_Witness ==
  /\ extract.done
  /\ extract.d.decoder_.frames > 0
  /\ extract.clat # << >>
  /\ extract.n_best = 0
  /\ WantWords(extract.d, extract.word_level)
  /\ extract.res_in # << >>
  /\ result_vec = extract.res_in
  /\ Positions("ShortestPath") # {}

\* what the same call yields when word level is not requested
WithoutWords ==
  get_decoded_results(extract.d, model_spec, extract.n_best, extract.res_in,
                      FALSE, extract.bidi_streaming, extract.clat, NoAlignment).results

\* C20: when word level is enabled and requested and the aligner ran, the
\* words are computed exactly when the aligned lattice has a start state,
\* whatever WordAlignLattice reported, and then the first entry of the
\* vector carries them; and whatever the alignment yields, every alternative
\* has the transcript, scores and confidence of the call without word level
C20_WordsIffValidStart ==
  extract.done =>
    /\ Positions("WordAlignLattice") # {} =>
         /\ Positions("MinimumBayesRisk") # {} <=> extract.align.start_valid
         /\ (extract.align.start_valid /\ extract.align.one_best # << >>) =>
              result_vec[1].words =
                [i \in 1..Len(extract.align.one_best) |->
                   MakeWord(model_spec, extract.align.one_best[i])]
         /\ ~extract.align.start_valid =>
              \A i \in 1..Len(result_vec) :
                result_vec[i].words = WithoutWords[i].words
    /\ Len(result_vec) = Len(WithoutWords)
    /\ \A i \in 1..Len(result_vec) :
         /\ result_vec[i].transcript = WithoutWords[i].transcript
         /\ result_vec[i].lm_score = WithoutWords[i].lm_score
         /\ result_vec[i].am_score = WithoutWords[i].am_score
         /\ result_vec[i].confidence = WithoutWords[i].confidence

\* the aligner reported a failure but left a start state: the words are there
C20_Witness ==
  /\ extract.done
  /\ WantWords(extract.d, extract.word_level)
  /\ Positions("WordAlignLattice") # {}
  /\ ~extract.align.ok
  /\ extract.align.start_valid
  /\ Len(result_vec) = 2
  /\ result_vec[1].words # << >>

\* threads that have a decoder out of the queue: acquire() has returned
\* and release() has not pushed yet
Takers == { t \in Threads : pc[t] \in {"holding", "push_lock", "push_push"} }

\* C21: once the pool is built, with callers that release what they
\* acquired once, the decoders in the queue and the decoders out with
\* callers are together the n_decoders the constructor made: every decoder
\* is either in the queue or with one caller, the queue holds no decoder
\* twice, and there is no decoder beyond those of the constructor
C21_PoolConservation ==
  pool_pc = "ready" =>
    /\ Len(decoders) = model_spec.n_decoders
    /\ Len(queue_) + Cardinality(Takers) = model_spec.n_decoders
    /\ \A i, j \in 1..Len(queue_) : queue_[i] = queue_[j] => i = j
    /\ \A i \in 1..Len(queue_) : queue_[i] \in Produced
    /\ \A s \in Produced : InQueue(s) <=> Holders(s) = {}

\* a pool of two after a release: one decoder in the queue, the other out
C21_Witness ==
  /\ pool_pc = "ready"
  /\ model_spec.n_decoders = 2
  /\ n_pushed >= 1
  /\ Len(queue_) = 1
  /\ \E t \in Threads : pc[t] = "holding" /\ held[t] # queue_[1]

\* C22: get_decoded_results only appends to the vector it is given: the
\* entries the vector had are still there, in their places and unchanged,
\* and when no frame was decoded the vector is exactly as it was passed
C22_OnlyAppends ==
  extract.done =>
    /\ Len(result_vec) >= Len(extract.res_in)
    /\ \A i \in 1..Len(extract.res_in) : result_vec[i] = extract.res_in[i]
    /\ extract.d.decoder_.frames = 0 => result_vec = extract.res_in

\* C23: when the pool has been destroyed every decoder it made has been
\* deleted, once, also a decoder that a caller held at that moment
C23_TeardownDeletesAll ==
  pool_pc = "destroyed" =>
    /\ ~crashed
    /\ \A s \in Produced : life[s] = "deleted"

\* C24: between the calls on a Decoder the search and the feature pipeline
\* are both absent or both present: both absent, with an empty uuid, after
\* construction and after free_decoder; both present, with the uuid given,
\* after start_decoding, which has deleted every per-utterance object it
\* found allocated
C24_SearchAndPipelineTogether ==
  /\ decoders[1].decoder_.null <=> decoders[1].feature_pipeline_.null
  /\ last.op \in {"none", "free"} =>
       (Allocated(decoders[1]) = {} /\ decoders[1].uuid_ = "")
  /\ last.op = "start" =>
       /\ Allocated(decoders[1]) = {"decoder_", "feature_pipeline_"}
       /\ decoders[1].uuid_ = last.uuid
       /\ decoders[1].feature_pipeline_.samples = 0
       /\ decoders[1].decoder_.frames = 0
       /\ \A m \in last.had : Positions("delete " \o m) # {}
       /\ Len(last.calls) = Cardinality(last.had)

\* an utterance with audio was in progress when start_decoding was called
\* again: both objects were deleted and replaced
C24_Witness ==
  /\ last.op = "start"
  /\ last.had = {"decoder_", "feature_pipeline_"}
  /\ Len(last.calls) = 2
  /\ decoders[1].uuid_ = "u2"
  /\ ~decoders[1].decoder_.null
  /\ result_vec # << >>

=============================================================================
